---- MODULE Spec2Model ----
(***************************************************************************)
(* Model of mini_sql.py: the interactive loop repl(), the query parser     *)
(* parse_query(), the predicate evaluator apply_where() and the executor   *)
(* execute().  Text is kept as TLA+ strings; Python's 0-based indices and  *)
(* half-open slices are kept (Slice, Find).  The one exception class       *)
(* QueryError is modelled by the cause of the error (its message); an      *)
(* exception of another class keeps the class name.                        *)
(***************************************************************************)
EXTENDS Integers, Sequences, FiniteSets, TLC

VARIABLES data, form, raw, pc, parsed, filtered, out, err

vars == <<data, form, raw, pc, parsed, filtered, out, err>>

(***************************************************************************)
(* Python str primitives.                                                  *)
(***************************************************************************)
\* s[i] for a 0-based index i
At(s, i) == SubSeq(s, i + 1, i + 1)

\* s[a:b] for 0 <= a, b <= len(s)
Slice(s, a, b) == SubSeq(s, a + 1, b)

LowerAlpha == "abcdefghijklmnopqrstuvwxyz"

UpperAlpha == "ABCDEFGHIJKLMNOPQRSTUVWXYZ"

UpperOf == [c \in {At(LowerAlpha, i) : i \in 0..25} |->
              At(UpperAlpha, CHOOSE i \in 0..25 : At(LowerAlpha, i) = c)]

LowerOf == [c \in {At(UpperAlpha, i) : i \in 0..25} |->
              At(LowerAlpha, CHOOSE i \in 0..25 : At(UpperAlpha, i) = c)]

RECURSIVE Upper(_)
\* str.upper()
Upper(s) ==
    IF s = "" THEN ""
    ELSE LET c == At(s, 0)
         IN (IF c \in DOMAIN UpperOf THEN UpperOf[c] ELSE c) \o Upper(Slice(s, 1, Len(s)))

RECURSIVE Lower(_)
\* str.lower()
Lower(s) ==
    IF s = "" THEN ""
    ELSE LET c == At(s, 0)
         IN (IF c \in DOMAIN LowerOf THEN LowerOf[c] ELSE c) \o Lower(Slice(s, 1, Len(s)))

\* the whitespace of the modelled character set
IsSpace(c) == c = " "

RECURSIVE LStrip(_)
LStrip(s) == IF s # "" /\ IsSpace(At(s, 0)) THEN LStrip(Slice(s, 1, Len(s))) ELSE s

RECURSIVE RStrip(_)
RStrip(s) == IF s # "" /\ IsSpace(At(s, Len(s) - 1)) THEN RStrip(Slice(s, 0, Len(s) - 1)) ELSE s

\* str.strip()
Strip(s) == RStrip(LStrip(s))

RECURSIVE Find(_, _, _)
\* s.find(sub, start): lowest index >= start where sub occurs, else -1
Find(s, sub, start) ==
    IF start + Len(sub) > Len(s) THEN -1
    ELSE IF Slice(s, start, start + Len(sub)) = sub THEN start
    ELSE Find(s, sub, start + 1)

\* sub in s
Contains(s, sub) == Find(s, sub, 0) # -1

StartsWith(s, p) == Len(s) >= Len(p) /\ Slice(s, 0, Len(p)) = p

EndsWith(s, p) == Len(s) >= Len(p) /\ Slice(s, Len(s) - Len(p), Len(s)) = p

RECURSIVE RFind(_, _, _)
\* s.rfind(sub), searched downwards from index i
RFind(s, sub, i) ==
    IF i < 0 THEN -1
    ELSE IF i + Len(sub) <= Len(s) /\ Slice(s, i, i + Len(sub)) = sub THEN i
    ELSE RFind(s, sub, i - 1)

RECURSIVE SplitWs(_, _, _)
\* str.split(): the whitespace-delimited words of s
SplitWs(s, cur, acc) ==
    IF s = "" THEN (IF cur = "" THEN acc ELSE Append(acc, cur))
    ELSE LET c == At(s, 0)
             rest == Slice(s, 1, Len(s))
         IN IF IsSpace(c)
            THEN SplitWs(rest, "", IF cur = "" THEN acc ELSE Append(acc, cur))
            ELSE SplitWs(rest, cur \o c, acc)

(***************************************************************************)
(* shlex.split(where_part): the POSIX tokenizer of the standard library    *)
(* (whitespace_split, no comment characters), as used at line 114.         *)
(***************************************************************************)
SQuote == "'"

DQuote == "\""

BSlash == "\\"

IsQuote(c) == c \in {SQuote, DQuote}

RECURSIVE ShlexScan(_, _, _, _, _, _)
\* shlex.read_token over the rest s; state is " " (between tokens), "a" (in
\* a word), a quote character (inside quotes) or the escape character
ShlexScan(s, state, escapedstate, token, quoted, toks) ==
    IF s = ""
    THEN IF IsQuote(state) \/ state = BSlash
         THEN [ok |-> FALSE, toks |-> <<>>]
         ELSE [ok |-> TRUE,
               toks |-> IF token # "" \/ quoted THEN Append(toks, token) ELSE toks]
    ELSE LET c == At(s, 0)
             rest == Slice(s, 1, Len(s))
         IN CASE state = " " ->
                   IF IsSpace(c) THEN ShlexScan(rest, " ", escapedstate, "", FALSE, toks)
                   ELSE IF c = BSlash THEN ShlexScan(rest, BSlash, "a", token, quoted, toks)
                   ELSE IF IsQuote(c) THEN ShlexScan(rest, c, escapedstate, token, TRUE, toks)
                   ELSE ShlexScan(rest, "a", escapedstate, c, quoted, toks)
              [] IsQuote(state) ->
                   IF c = state THEN ShlexScan(rest, "a", escapedstate, token, TRUE, toks)
                   ELSE IF c = BSlash /\ state = DQuote
                        THEN ShlexScan(rest, BSlash, state, token, TRUE, toks)
                   ELSE ShlexScan(rest, state, escapedstate, token \o c, TRUE, toks)
              [] state = BSlash ->
                   ShlexScan(rest, escapedstate, escapedstate,
                             (IF IsQuote(escapedstate) /\ c # BSlash /\ c # escapedstate
                              THEN token \o BSlash ELSE token) \o c,
                             quoted, toks)
              [] OTHER ->
                   IF IsSpace(c) THEN ShlexScan(rest, " ", escapedstate, "", FALSE, Append(toks, token))
                   ELSE IF IsQuote(c) THEN ShlexScan(rest, c, escapedstate, token, TRUE, toks)
                   ELSE IF c = BSlash THEN ShlexScan(rest, BSlash, "a", token, quoted, toks)
                   ELSE ShlexScan(rest, "a", escapedstate, token \o c, quoted, toks)

\* shlex.split(s); ok = FALSE stands for the ValueError
ShlexSplit(s) == ShlexScan(s, " ", " ", "", FALSE, <<>>)

(***************************************************************************)
(* parse_query                                                             *)
(***************************************************************************)
RECURSIVE SplitSelectLoop(_, _, _, _)
\* split_select: the for loop over the characters of s
SplitSelectLoop(s, parts, cur, paren) ==
    IF s = "" THEN (IF Strip(cur) # "" THEN Append(parts, Strip(cur)) ELSE parts)
    ELSE LET ch == At(s, 0)
             rest == Slice(s, 1, Len(s))
             p2 == IF ch = "(" THEN paren + 1 ELSE IF ch = ")" THEN paren - 1 ELSE paren
         IN IF ch = "," /\ p2 = 0
            THEN SplitSelectLoop(rest, Append(parts, Strip(cur)), "", p2)
            ELSE SplitSelectLoop(rest, parts, cur \o ch, p2)

split_select(s) == SplitSelectLoop(s, <<>>, "", 0)

RECURSIVE ParseItems(_, _)
\* the loop over select_items; the result is the list or the error raised
ParseItems(items, acc) ==
    IF items = <<>> THEN [err |-> "none", select |-> acc]
    ELSE LET it_strip == Strip(Head(items))
             up_it == Upper(it_strip)
             inner == Strip(Slice(it_strip, Find(it_strip, "(", 0) + 1, Len(it_strip) - 1))
         IN IF it_strip = "*" THEN ParseItems(Tail(items), Append(acc, "*"))
            ELSE IF StartsWith(up_it, "COUNT(") /\ EndsWith(up_it, ")")
                 THEN IF inner = ""
                      THEN [err |-> "EmptyAggregateArgument", select |-> <<>>]
                      ELSE ParseItems(Tail(items), Append(acc, "COUNT(" \o inner \o ")"))
            ELSE IF Contains(it_strip, "(") \/ Contains(it_strip, ")")
                 THEN [err |-> "UnsupportedExpression", select |-> <<>>]
            ELSE ParseItems(Tail(items), Append(acc, it_strip))

\* the operators of the fallback scan, in the order the loop tries them
OpChars == <<">=", "<=", "!=", ">", "<", "=">>

\* a literal of length >= 2 whose first and last characters are the same quote
Wrapped(val) == Len(val) >= 2 /\ At(val, 0) = At(val, Len(val) - 1) /\ IsQuote(At(val, 0))

\* val[1:-1] when val is wrapped in matching quotes
Unquote(val) == IF Wrapped(val) THEN Slice(val, 1, Len(val) - 1) ELSE val

NoWhere == [present |-> FALSE, col |-> "", op |-> "", val |-> ""]

RECURSIVE OpScan(_, _)
\* the for/else over the operators: split on the first one found in joined
OpScan(joined, k) ==
    IF k > Len(OpChars) THEN [err |-> "MalformedWhere", where |-> NoWhere]
    ELSE LET op_char == OpChars[k]
             at == Find(joined, op_char, 0)
         IN IF at # -1
            THEN [err |-> "none",
                  where |-> [present |-> TRUE,
                             col |-> Strip(Slice(joined, 0, at)),
                             op |-> op_char,
                             val |-> Unquote(Strip(Slice(joined, at + Len(op_char), Len(joined))))]]
            ELSE OpScan(joined, k + 1)

\* lines 112-135: the WHERE parser on a non-empty where_part
ParseWhere(where_part) ==
    LET lex == ShlexSplit(where_part)
        tokens == lex.toks
        first == IF Len(tokens) = 3
                 THEN [err |-> "none",
                       where |-> [present |-> TRUE, col |-> tokens[1],
                                  op |-> tokens[2], val |-> tokens[3]]]
                 ELSE OpScan(Strip(where_part), 1)
    IN IF ~lex.ok THEN [err |-> "MalformedWhere", where |-> NoWhere]
       ELSE IF first.err # "none" THEN first
       ELSE [err |-> "none", where |-> [first.where EXCEPT !.val = Unquote(@)]]

ParseError(e) == [err |-> e, select |-> <<>>, from |-> "", where |-> NoWhere]

\* up.find("FROM"): the FROM keyword searched from the start of the line
FromIdxAnywhere(up, sel_idx) == Find(up, "FROM", 0)

\* up.find("FROM", sel_idx): the FROM keyword is searched from SELECT on
FromIdx(up, sel_idx) == Find(up, "FROM", sel_idx)

parse_query(q) ==
    LET up == Upper(q)
        sel_idx == Find(up, "SELECT", 0)
        from_idx == FromIdx(up, sel_idx)
        where_idx == Find(up, "WHERE", from_idx)
        select_part == Strip(Slice(q, sel_idx + Len("SELECT"), from_idx))
        from_part == Strip(IF where_idx = -1
                           THEN Slice(q, from_idx + Len("FROM"), Len(q))
                           ELSE Slice(q, from_idx + Len("FROM"), where_idx))
        where_part == IF where_idx = -1 THEN ""
                      ELSE Slice(q, where_idx + Len("WHERE"), Len(q))
        items == ParseItems(split_select(select_part), <<>>)
        table == Strip(SplitWs(from_part, "", <<>>)[1])
        wh == IF where_part # "" THEN ParseWhere(where_part)
              ELSE [err |-> "none", where |-> NoWhere]
    IN IF Strip(q) = "" THEN ParseError("EmptyQuery")
       ELSE IF ~Contains(up, "SELECT") \/ ~Contains(up, "FROM") THEN ParseError("MissingClause")
       ELSE IF from_idx = -1 THEN ParseError("MissingClause")
       ELSE IF select_part = "" THEN ParseError("EmptySelect")
       ELSE IF from_part = "" THEN ParseError("EmptyFrom")
       ELSE IF items.err # "none" THEN ParseError(items.err)
       ELSE IF wh.err # "none" THEN ParseError(wh.err)
       ELSE [err |-> "none", select |-> items.select, from |-> table, where |-> wh.where]

(***************************************************************************)
(* apply_where                                                             *)
(***************************************************************************)
Digits == "0123456789"

DigitVal == [c \in {At(Digits, i) : i \in 0..9} |-> CHOOSE i \in 0..9 : At(Digits, i) = c]

NotNum == [num |-> FALSE, k |-> "str", n |-> 0, d |-> 1]

RECURSIVE DecScan(_, _, _, _, _)
\* the decimal numeral [digits][.digits] with at least one digit, as the
\* rational n/d; exponents and digit separators are outside the modelled
\* character set
DecScan(s, n, d, point, ndigits) ==
    IF s = "" THEN (IF ndigits = 0 THEN NotNum ELSE [num |-> TRUE, k |-> "fin", n |-> n, d |-> d])
    ELSE LET c == At(s, 0)
             rest == Slice(s, 1, Len(s))
         IN IF c \in DOMAIN DigitVal
            THEN DecScan(rest, 10 * n + DigitVal[c], IF point THEN 10 * d ELSE d, point, ndigits + 1)
            ELSE IF c = "." /\ ~point THEN DecScan(rest, n, d, TRUE, ndigits)
            ELSE NotNum

\* try_float(x): float(x) of the text x, or the failure to parse
try_float(x) ==
    LET t == Strip(x)
        signed == t # "" /\ At(t, 0) \in {"+", "-"}
        sign == IF signed /\ At(t, 0) = "-" THEN -1 ELSE 1
        body == IF signed THEN Slice(t, 1, Len(t)) ELSE t
        dec == DecScan(body, 0, 1, FALSE, 0)
    IN IF Lower(body) = "nan" THEN [num |-> TRUE, k |-> "nan", n |-> 0, d |-> 1]
       ELSE IF Lower(body) \in {"inf", "infinity"} THEN [num |-> TRUE, k |-> "inf", n |-> sign, d |-> 1]
       ELSE IF dec.num THEN [dec EXCEPT !.n = sign * @]
       ELSE NotNum

\* a < b on floats
FloatLt(a, b) ==
    /\ a.k # "nan" /\ b.k # "nan"
    /\ IF a.k = "inf" \/ b.k = "inf"
       THEN (IF a.k = "inf" THEN a.n ELSE 0) < (IF b.k = "inf" THEN b.n ELSE 0)
       ELSE a.n * b.d < b.n * a.d

\* a == b on floats
FloatEq(a, b) ==
    /\ a.k # "nan" /\ b.k # "nan"
    /\ ~FloatLt(a, b) /\ ~FloatLt(b, a)

\* lines 164-173: the numeric branch
NumCompare(a, op, b) ==
    CASE op = ">" -> [err |-> "none", matched |-> FloatLt(b, a)]
      [] op = "<" -> [err |-> "none", matched |-> FloatLt(a, b)]
      [] op = ">=" -> [err |-> "none", matched |-> FloatLt(b, a) \/ FloatEq(a, b)]
      [] op = "<=" -> [err |-> "none", matched |-> FloatLt(a, b) \/ FloatEq(a, b)]
      [] op \in {"=", "=="} -> [err |-> "none", matched |-> FloatEq(a, b)]
      [] op \in {"!=", "<>"} -> [err |-> "none", matched |-> ~FloatEq(a, b)]
      [] OTHER -> [err |-> "InvalidOperator", matched |-> FALSE]

\* the text branch with the ordering operators answered by equality
TextCompareLenient(cell, op, val_raw) ==
    CASE op \in {"=", "==", ">=", "<="} -> [err |-> "none", matched |-> cell = val_raw]
      [] OTHER -> [err |-> "none", matched |-> cell # val_raw]

\* lines 175-179: the text branch
TextCompare(cell, op, val_raw) ==
    CASE op \in {"=", "=="} -> [err |-> "none", matched |-> cell = val_raw]
      [] op \in {"!=", "<>"} -> [err |-> "none", matched |-> cell # val_raw]
      [] OTHER -> [err |-> "InvalidOperatorForStrings", matched |-> FALSE]

\* row.get(c, "")
Get(row, c) == IF c \in DOMAIN row THEN row[c] ELSE ""

\* the comparison of one row's cell with the literal
Matched(row, where) ==
    LET cell == Get(row, where.col)
        c == try_float(cell)
        v == try_float(where.val)
    IN IF c.num /\ v.num THEN NumCompare(c, where.op, v)
       ELSE TextCompare(cell, where.op, where.val)

RECURSIVE WhereLoopPrepend(_, _, _)
\* the loop over the rows, inserting each matching row at the front
WhereLoopPrepend(rows, where, result) ==
    IF rows = <<>> THEN [err |-> "none", rows |-> result]
    ELSE LET m == Matched(Head(rows), where)
         IN IF m.err # "none" THEN [err |-> m.err, rows |-> <<>>]
            ELSE WhereLoopPrepend(Tail(rows), where,
                                  IF m.matched THEN <<Head(rows)>> \o result ELSE result)

RECURSIVE WhereLoop(_, _, _)
\* lines 157-184: the loop over the rows, appending the matching ones
WhereLoop(rows, where, result) ==
    IF rows = <<>> THEN [err |-> "none", rows |-> result]
    ELSE LET m == Matched(Head(rows), where)
         IN IF m.err # "none" THEN [err |-> m.err, rows |-> <<>>]
            ELSE WhereLoop(Tail(rows), where, IF m.matched THEN Append(result, Head(rows)) ELSE result)

apply_where(rows, where) ==
    IF ~where.present THEN [err |-> "none", rows |-> rows]
    ELSE IF Len(rows) > 0 /\ where.col \notin DOMAIN rows[1]
         THEN [err |-> "UnknownColumn", rows |-> <<>>]
    ELSE WhereLoop(rows, where, <<>>)

(***************************************************************************)
(* execute and print_table; out is the sequence of things printed          *)
(***************************************************************************)
\* the header order of the CSV file, which is the key order of every row
ColOrder == <<"name", "age">>

\* list(row.keys())
Keys(row) == SelectSeq(ColOrder, LAMBDA c : c \in DOMAIN row)

CountLine(label, n) == [kind |-> "count", label |-> label, count |-> n, rows |-> <<>>, cols |-> <<>>]

\* print_table(rows, columns): "(no rows)", or the cells of the columns
print_table(rows, columns) ==
    IF Len(rows) = 0
    THEN [kind |-> "norows", label |-> "", count |-> 0, rows |-> <<>>, cols |-> <<>>]
    ELSE [kind |-> "table", label |-> "", count |-> 0,
          rows |-> [i \in 1..Len(rows) |-> [j \in 1..Len(columns) |-> Get(rows[i], columns[j])]],
          cols |-> columns]

\* s.upper().startswith("COUNT(")
IsCount(s) == StartsWith(Upper(s), "COUNT(")

\* the mix test with the comparison the wrong way round
MixedLess(select_items, counts) == Len(select_items) < Len(counts)

\* line 195: the select list mixes COUNT with other items
Mixed(select_items, counts) == Len(select_items) # Len(counts)

\* the rows whose cell for col is not blank
CountColNonBlank(rows, col) == Cardinality({i \in 1..Len(rows) : Strip(Get(rows[i], col)) # ""})

\* line 206: the rows whose cell for col is not the empty text
CountCol(rows, col) == Cardinality({i \in 1..Len(rows) : Get(rows[i], col) # ""})

RECURSIVE CountLoop(_, _, _)
\* lines 198-207: one line printed per COUNT item, until one raises
CountLoop(counts, rows, printed) ==
    IF counts = <<>> THEN [err |-> "none", out |-> printed]
    ELSE LET cnt == Head(counts)
             inner == Strip(Slice(cnt, Find(cnt, "(", 0) + 1, RFind(cnt, ")", Len(cnt))))
         IN IF inner = "*"
            THEN CountLoop(Tail(counts), rows, Append(printed, CountLine("COUNT(*)", Len(rows))))
            ELSE IF Len(rows) > 0 /\ inner \notin DOMAIN rows[1]
                 THEN [err |-> "UnknownColumn", out |-> printed]
            ELSE CountLoop(Tail(counts), rows,
                           Append(printed, CountLine("COUNT(" \o inner \o ")", CountCol(rows, inner))))

Result(e, printed, rows) == [err |-> e, out |-> printed, filtered |-> rows]

\* lines 210-219: the projection of the filtered rows
Project(select_items, table_data, rows) ==
    IF select_items = <<"*">>
    THEN IF rows # <<>> THEN Result("none", <<print_table(rows, Keys(rows[1]))>>, rows)
         ELSE IF table_data = <<>> THEN Result("IndexError", <<>>, rows)
         ELSE Result("none", <<print_table(rows, Keys(table_data[1]))>>, rows)
    ELSE IF rows # <<>> /\ \E i \in 1..Len(select_items) : select_items[i] \notin DOMAIN rows[1]
         THEN Result("UnknownColumn", <<>>, rows)
    ELSE Result("none", <<print_table(rows, select_items)>>, rows)

\* what the count loop printed and raised
Counted(cl, rows) == Result(cl.err, cl.out, rows)

\* lines 193-219: the COUNT items counts of the select list decide the branch
Resolve(select_items, table_data, rows, counts) ==
    IF counts # <<>>
    THEN IF Mixed(select_items, counts) THEN Result("MixedAggregate", <<>>, rows)
         ELSE Counted(CountLoop(counts, rows, <<>>), rows)
    ELSE Project(select_items, table_data, rows)

\* lines 191-219 once apply_where has returned or raised w
Filtered(p, table_data, w) ==
    IF w.err # "none" THEN Result(w.err, <<>>, <<>>)
    ELSE Resolve(p.select, table_data, w.rows, SelectSeq(p.select, IsCount))

execute(p, table_data) == Filtered(p, table_data, apply_where(table_data, p.where))

(***************************************************************************)
(* The table loaded by repl() and the lines typed at the prompt.           *)
(***************************************************************************)
\* the name given at start-up; the only CSV file that exists
basename == "t"

\* the largest number of rows of the loaded table
MaxRows == 2

CandRows == {[name |-> "A", age |-> "25"], [name |-> "B", age |-> "35"],
             [name |-> "", age |-> "0"], [name |-> " ", age |-> "x"]}

Tables == UNION {[1..n -> CandRows] : n \in 0..MaxRows}

\* read_csv_table(name): the rows of the file, or the error for a missing file
read_csv_table(name, loaded) ==
    IF name # basename THEN [err |-> "TableNotFound", rows |-> <<>>]
    ELSE [err |-> "none", rows |-> loaded]

\* a typed line, kept as the pieces it is made of
Line(kind, pre, list, mid, col, sp, op, qt, lit) ==
    [kind |-> kind, pre |-> pre, list |-> list, mid |-> mid, col |-> col,
     sp |-> sp, op |-> op, qt |-> qt, lit |-> lit]

NoLine == Line("none", "", "", "", "", "", "", "", "")

\* the where-segment of a typed line
Segment(f) == f.col \o f.sp \o f.op \o f.sp \o f.qt \o f.lit \o f.qt

\* the text of a typed line
Render(f) ==
    f.pre \o f.list \o f.mid \o (IF f.op = "" THEN "" ELSE " WHERE " \o Segment(f))

TextLines ==
    {"", "   ", "exit", "QUIT", " quit ", "FROM t SELECT a", "from t select *",
     "SELECT", "FROM", "SELECT a", "a FROM t", "SELECT FROM t", "SELECT * FROM",
     "SELECT * FROM t WHERE", "SELECT * FROM u", "SELECT COUNT() FROM t",
     "SELECT max(age) FROM t", "SELECT * FROM t WHERE name = 'x",
     "SELECT * FROM t WHERE name", "SELECT * FROM t x WHERE age > 30",
     "SELECT name,,age FROM t", "SELECT name FROM t WHERE age > 30 or"}

SelectLists ==
    {"*", "name", "name,age", "age , name", "zip", "*, name",
     "COUNT(*)", "count(age)", "COUNT(name)", "COUNT( zip )",
     "COUNT(*), COUNT(zip)", "COUNT(zip), COUNT(*)", "COUNT(*),COUNT(name)",
     "name, COUNT(age)", "COUNT(*), *", "zip, COUNT(zip)"}

Ops == {">", "<", ">=", "<=", "=", "!=", "<>", "==", "=>"}

\* texts without whitespace, quote or comparison character
CleanTexts == {"", "age", "5", "\\", "5\\", "\\\\"}

\* literals typed between quotes
Inners == {"", "x", "A", "a b", "O'B", "'x'", "\"x\""}

Lines ==
    {Line("text", t, "", "", "", "", "", "", "") : t \in TextLines}
    \cup {Line("keywords", pre, "*", mid, "", "", "", "", "") :
            pre \in {"SELECT ", "select ", "SeLeCt ", "SELEC ", ""},
            mid \in {" FROM t", " from t", " FRO t", " t"}}
    \cup {Line("select", "SELECT ", l, " FROM t", w[1], " ", w[2], "", w[3]) :
            l \in SelectLists,
            w \in {<<"", "", "">>, <<"age", ">", "30">>, <<"age", ">", "99">>,
                   <<"zip", "=", "1">>, <<"name", ">", "x">>, <<"name", "!=", "A">>}}
    \cup {Line("where", "SELECT ", "*", " FROM t", col, " ", op, "", lit) :
            col \in {"age", "name"}, op \in Ops,
            lit \in {"30", "25", "35.0", "0", "x", "A", "nan"}}
    \cup {Line("nospace", "SELECT ", "*", " FROM t", col, "", op, "", lit) :
            col \in CleanTexts, op \in {">=", "<=", "!=", ">", "<", "="}, lit \in CleanTexts}
    \cup {Line("quoted", "SELECT ", "*", " FROM t", "name", sp, op, qt, lit) :
            sp \in {"", " "}, op \in {"=", "!="}, qt \in {SQuote, DQuote}, lit \in Inners}

NoParse == [err |-> "unparsed", select |-> <<>>, from |-> "", where |-> NoWhere]

(***************************************************************************)
(* repl(): the loop after the table is loaded.                             *)
(***************************************************************************)
Init ==
    /\ data \in Tables
    /\ form = NoLine
    /\ raw = ""
    /\ pc = "prompt"
    /\ parsed = NoParse
    /\ filtered = <<>>
    /\ out = <<>>
    /\ err = "none"

\* line 234: a line is read and stripped; it is not exit or quit
ReadQuery ==
    /\ pc = "prompt"
    /\ \E f \in Lines :
         /\ Lower(Strip(Render(f))) \notin {"exit", "quit"}
         /\ form' = f
         /\ raw' = Strip(Render(f))
    /\ pc' = "parse"
    /\ UNCHANGED <<data, parsed, filtered, out, err>>

\* lines 239-241: exit or quit ends the loop
Quit ==
    /\ pc = "prompt"
    /\ \E f \in Lines :
         /\ Lower(Strip(Render(f))) \in {"exit", "quit"}
         /\ form' = f
         /\ raw' = Strip(Render(f))
    /\ pc' = "exited"
    /\ UNCHANGED <<data, parsed, filtered, out, err>>

\* line 244: parse_query(raw); an error is caught by the loop and printed
Parse ==
    /\ pc = "parse"
    /\ parsed' = parse_query(raw)
    /\ err' = parsed'.err
    /\ pc' = IF parsed'.err = "none" THEN "exec" ELSE "done"
    /\ UNCHANGED <<data, form, raw, filtered, out>>

\* lines 245-252: the table is resolved and loaded, and the query executed
Run(p, t) ==
    IF t.err # "none" THEN Result(t.err, <<>>, <<>>) ELSE execute(p, t.rows)

Execute ==
    /\ pc = "exec"
    /\ LET r == Run(parsed, read_csv_table(parsed.from, data))
       IN /\ err' = r.err
          /\ filtered' = r.filtered
          /\ out' = r.out
    /\ pc' = "done"
    /\ UNCHANGED <<data, form, raw, parsed>>

\* the loop goes back to the prompt
Again ==
    /\ pc = "done"
    /\ pc' = "prompt"
    /\ form' = NoLine
    /\ raw' = ""
    /\ parsed' = NoParse
    /\ filtered' = <<>>
    /\ out' = <<>>
    /\ err' = "none"
    /\ UNCHANGED data

Next == ReadQuery \/ Quit \/ Parse \/ Execute \/ Again

Spec == Init /\ [][Next]_vars

(***************************************************************************)
(* Properties.                                                             *)
(***************************************************************************)
\* the query was parsed and the table it names is the loaded one
Ran == pc = "done" /\ parsed.err = "none" /\ parsed.from = basename

\* the comparison the predicate w stands for, on one row: numeric when both
\* the cell and the literal are numbers, textual otherwise
Holds(row, w) ==
    LET c == try_float(row[w.col])
        v == try_float(w.val)
    IN IF c.num /\ v.num
       THEN \/ w.op = ">" /\ FloatLt(v, c)
            \/ w.op = "<" /\ FloatLt(c, v)
            \/ w.op = ">=" /\ c.k # "nan" /\ v.k # "nan" /\ ~FloatLt(c, v)
            \/ w.op = "<=" /\ c.k # "nan" /\ v.k # "nan" /\ ~FloatLt(v, c)
            \/ w.op \in {"=", "=="} /\ FloatEq(c, v)
            \/ w.op \in {"!=", "<>"} /\ ~FloatEq(c, v)
       ELSE \/ w.op \in {"=", "=="} /\ row[w.col] = w.val
            \/ w.op \in {"!=", "<>"} /\ row[w.col] # w.val

\* res is the rows of rows at the indices of keep, in increasing order
IsSubsequenceAt(res, rows, keep) ==
    /\ Len(res) = Cardinality(keep)
    /\ \A i \in keep : res[1 + Cardinality({j \in keep : j < i})] = rows[i]

\* C1: when apply_where does not fail, the filtered rows are exactly the rows
\* of the table for which the comparison holds, in their original order, each
\* once and unaltered; without a predicate they are all the rows.
C1_StableFilter ==
    (Ran /\ apply_where(data, parsed.where).err = "none") =>
        IF parsed.where.present
        THEN IsSubsequenceAt(filtered, data,
                             {i \in 1..Len(data) : Holds(data[i], parsed.where)})
        ELSE filtered = data

C1_Witness ==
    /\ Ran
    /\ data = <<[name |-> "A", age |-> "25"], [name |-> "B", age |-> "35"]>>
    /\ parsed.where = [present |-> TRUE, col |-> "age", op |-> ">", val |-> "30"]
    /\ filtered = <<[name |-> "B", age |-> "35"]>>

\* the indices at which the keyword kw occurs in s, case-insensitively
Occ(s, kw) ==
    LET up == Upper(s)
    IN {i \in 0..(Len(s) - Len(kw)) : Slice(up, i, i + Len(kw)) = kw}

\* SELECT or FROM is missing, or FROM occurs only before SELECT
MissingKeyword(s) ==
    \/ Occ(s, "SELECT") = {}
    \/ Occ(s, "FROM") = {}
    \/ \A j \in Occ(s, "FROM") : \A i \in Occ(s, "SELECT") : j < i

Parsed == pc \in {"exec", "done"}

\* C2 as stated: every query string missing SELECT or FROM fails with
\* MissingClause.
C2_Original == (Parsed /\ MissingKeyword(raw)) => parsed.err = "MissingClause"

\* C2: every query string that is not blank and misses SELECT or FROM (FROM
\* only before SELECT included) fails with MissingClause and yields no
\* parsed query; the blank string fails with EmptyQuery.
C2_MissingClause ==
    (Parsed /\ MissingKeyword(raw)) =>
        /\ pc = "done" /\ parsed.select = <<>> /\ out = <<>>
        /\ parsed.err = IF raw = "" THEN "EmptyQuery" ELSE "MissingClause"

C2_Witness ==
    /\ Parsed
    /\ Occ(raw, "SELECT") # {} /\ Occ(raw, "FROM") # {} /\ MissingKeyword(raw)
    /\ parsed.err = "MissingClause"

\* the typed select lists that mix COUNT with other items, and their items
MixedItems ==
    [l \in {"name, COUNT(age)", "COUNT(*), *", "zip, COUNT(zip)"} |->
        CASE l = "name, COUNT(age)" -> <<"name", "COUNT(age)">>
          [] l = "COUNT(*), *" -> <<"COUNT(*)", "*">>
          [] OTHER -> <<"zip", "COUNT(zip)">>]

MixedTyped == pc = "done" /\ form.kind = "select" /\ form.list \in DOMAIN MixedItems

\* C3 as stated: a select list mixing COUNT with other items parses to both
\* items, and execute fails with MixedAggregate.
C3_Original ==
    MixedTyped => /\ parsed.err = "none"
                  /\ parsed.select = MixedItems[form.list]
                  /\ err = "MixedAggregate"

\* C3: a select list mixing COUNT with other items parses to both items;
\* execute raises the predicate's error when evaluating the predicate fails,
\* and fails with MixedAggregate otherwise, printing nothing.
C3_MixedAggregate ==
    MixedTyped => /\ parsed.err = "none"
                  /\ parsed.select = MixedItems[form.list]
                  /\ out = <<>>
                  /\ LET w == apply_where(data, parsed.where)
                     IN err = IF w.err # "none" THEN w.err ELSE "MixedAggregate"

C3_Witness ==
    /\ MixedTyped
    /\ parsed.select = <<"name", "COUNT(age)">>
    /\ data # <<>>
    /\ err = "MixedAggregate"

\* C4: whenever execute fails, nothing has been printed.
C4_FailFast == (pc = "done" /\ err # "none") => out = <<>>

\* the causes of QueryError
QueryErrorKinds ==
    {"EmptyQuery", "MissingClause", "EmptySelect", "EmptyFrom", "UnsupportedExpression",
     "EmptyAggregateArgument", "MalformedWhere", "UnknownColumn", "InvalidOperator",
     "InvalidOperatorForStrings", "MixedAggregate", "TableNotFound", "NoColumnsDefined"}

\* C5: parsing and executing a line ends with a result or with a QueryError,
\* for every table, the empty one included.
C5_OnlyQueryError == pc = "done" => err \in QueryErrorKinds \cup {"none"}

OrderingOps == {"<", ">", "<=", ">="}

SixOps == {"=", "!=", "<>", "<", ">", "<=", ">="}

\* every cell of column c and the literal v are numbers
AllNumeric(rows, c, v) ==
    try_float(v).num /\ \A i \in 1..Len(rows) : try_float(rows[i][c]).num

HasPredicate == Ran /\ parsed.where.present /\ data # <<>> /\ parsed.where.col \in DOMAIN data[1]

\* C6: on a non-empty table that has the predicate's column, an ordering
\* operator fails with InvalidOperatorForStrings and yields no rows when the
\* literal or some cell of the column is not a number; when all of them are
\* numbers, each of the six operators succeeds.
C6_OrderingOnText ==
    HasPredicate =>
        LET w == parsed.where
        IN /\ (w.op \in OrderingOps /\ ~AllNumeric(data, w.col, w.val)) =>
                (err = "InvalidOperatorForStrings" /\ filtered = <<>> /\ out = <<>>)
           /\ (w.op \in SixOps /\ AllNumeric(data, w.col, w.val)) =>
                apply_where(data, w).err = "none"

C6_Witness ==
    /\ HasPredicate
    /\ parsed.where.op = ">" /\ parsed.where.col = "age" /\ parsed.where.val = "x"
    /\ try_float(data[1]["age"]).num
    /\ err = "InvalidOperatorForStrings"

\* the argument of a parsed COUNT item
CountTarget(item) == Slice(item, Len("COUNT("), Len(item) - 1)

AllCounts ==
    /\ Ran
    /\ parsed.select # <<>>
    /\ \A i \in 1..Len(parsed.select) : IsCount(parsed.select[i])
    /\ apply_where(data, parsed.where).err = "none"

\* C7: for an all-COUNT select list whose predicate succeeds, COUNT(*) is the
\* number of filtered rows and COUNT(col) the number of filtered rows whose
\* cell for col is not the empty text; on an empty filtered set, the empty
\* table included, every count is 0 and there is no error.
C7_Counts ==
    AllCounts =>
        /\ \A i \in 1..Len(out) :
             /\ out[i].kind = "count"
             /\ out[i].count =
                  IF CountTarget(parsed.select[i]) = "*" THEN Len(filtered)
                  ELSE Cardinality({k \in 1..Len(filtered) :
                                      filtered[k][CountTarget(parsed.select[i])] # ""})
        /\ (\A i \in 1..Len(parsed.select) :
               CountTarget(parsed.select[i]) \in {"*", "name", "age"}) =>
             (err = "none" /\ Len(out) = Len(parsed.select))
        /\ filtered = <<>> => \A i \in 1..Len(out) : out[i].count = 0

C7_Witness ==
    /\ AllCounts
    /\ parsed.select = <<"COUNT(name)">>
    /\ \E i, j \in 1..Len(filtered) : filtered[i]["name"] = " " /\ filtered[j]["name"] = ""
    /\ out = <<CountLine("COUNT(name)", 1)>>

\* the where-segment was typed as col, op, lit without spaces or quotes
NoSpaceTyped == Parsed /\ form.kind = "nospace"

TypedPredicate == [present |-> TRUE, col |-> form.col, op |-> form.op, val |-> form.lit]

\* C8: in the fallback, col + op + lit without whitespace, quote or comparison
\* character parses to (col, op, lit), a two-character operator as one operator.
C8_NoSpaceFallback == NoSpaceTyped => (parsed.err = "none" /\ parsed.where = TypedPredicate)

RECURSIVE TrailingBackslashes(_)
TrailingBackslashes(s) ==
    IF s # "" /\ At(s, Len(s) - 1) = BSlash
    THEN 1 + TrailingBackslashes(Slice(s, 0, Len(s) - 1))
    ELSE 0

\* what parse_query does with such a segment: the tokenizer rejects a literal
\* that ends in an unescaped backslash, every other segment parses as typed
NoSpaceUnlessDangling ==
    NoSpaceTyped =>
        IF TrailingBackslashes(form.lit) % 2 = 1
        THEN parsed.err = "MalformedWhere"
        ELSE parsed.err = "none" /\ parsed.where = TypedPredicate

\* C9: a literal typed between matching quotes loses exactly that one layer
\* of quotes, on the three-token path and on the fallback.
C9_OneLayer ==
    (Parsed /\ form.kind = "quoted" /\ parsed.err = "none") => parsed.where.val = form.lit

\* C10: COUNT(col) on a column the non-empty table does not have fails with
\* UnknownColumn, also when the predicate filters out every row.
C10_UnknownCountColumn ==
    (AllCounts /\ data # <<>>
       /\ \E i \in 1..Len(parsed.select) :
            CountTarget(parsed.select[i]) \notin {"*", "name", "age"}) =>
        err = "UnknownColumn"

====
